---- MODULE Spec2Model ----
(***************************************************************************)
(* MAX31335 real-time clock driver (src/unnamed/part_000, first variant).  *)
(*                                                                         *)
(* The chip is a register file reached through regmap.  The RTC core calls *)
(* the rtc_class_ops of the driver with rtc->ops_lock held; the threaded   *)
(* interrupt handler takes the same lock itself.  Every regmap call is one *)
(* bus transaction, which either succeeds or fails with -EIO.              *)
(***************************************************************************)
EXTENDS Integers, Sequences, FiniteSets, TLC

VARIABLES
    regs,       \* the chip's registers: address -> byte
    ops_lock,   \* owner of rtc->ops_lock: "free", "rtc" or "irq"
    rtc,        \* the RTC core's call into one rtc_class_ops callback
    irq,        \* the threaded interrupt handler max31335_handle_irq
    notified,   \* number of rtc_update_irq(rtc, 1, RTC_AF | RTC_IRQF) calls
    fired,      \* number of times the chip has latched the alarm flag A1F
    lastSet,    \* the time of the last successful set_time, if still stored
    clk,        \* the clock framework's call into one clk_ops callback
    probe,      \* max31335_probe: its position and what it has set up
    vol         \* regmap's question to max31335_volatile_reg and the answer

vars == <<regs, ops_lock, rtc, irq, notified, fired, lastSet, clk, probe, vol>>

----------------------------------------------------------------------------
(* Register addresses and bit fields                                       *)

MAX31335_STATUS1 == 0
MAX31335_INT_EN == 1
MAX31335_RTC_CONFIG2 == 6
MAX31335_SECONDS == 10
MAX31335_ALM1_SEC == 17
MAX31335_TRICKLE_REG == 29
MAX31335_AGING_OFFSET == 30

\* u8 date[7] of read_time/set_time, u8 regs[6] of read_alarm/set_alarm
TimeSize == 7
AlarmSize == 6

Addr == {MAX31335_STATUS1, MAX31335_INT_EN, MAX31335_RTC_CONFIG2,
         MAX31335_TRICKLE_REG, MAX31335_AGING_OFFSET}
        \cup (MAX31335_SECONDS .. MAX31335_SECONDS + TimeSize - 1)
        \cup (MAX31335_ALM1_SEC .. MAX31335_ALM1_SEC + AlarmSize - 1)

\* FIELD_GET(BIT(n), v) for a byte v
Bit(v, n) == (v \div (2 ^ n)) % 2

\* (v & ~BIT(n)) | (b << n) for a byte v and b in {0, 1}
WithBit(v, n, b) == v - Bit(v, n) * (2 ^ n) + b * (2 ^ n)

\* FIELD_GET(MAX31335_STATUS1_A1F, v), FIELD_GET(MAX31335_INT_EN1_A1IE, v)
A1F(v) == Bit(v, 0)
A1IE(v) == Bit(v, 0)

----------------------------------------------------------------------------
(* BCD codec and the time translation                                      *)

bcd2bin(val) == (val % 16) + (val \div 16) * 10

bin2bcd(val) == ((val \div 10) * 16 + (val % 10)) % 256

\* a decode that masks the hour byte before looking at the mode bit, as the
\* draft max31335_get_time does with bcd2bin(date[2] & 0x3f)
max31335_get_hour_mask_mut(hour_reg) == bcd2bin(hour_reg % 64)

max31335_get_hour(hour_reg) ==
    IF Bit(hour_reg, 6) = 0
    THEN bcd2bin(hour_reg % 64)
    ELSE LET h12 == bcd2bin(hour_reg % 32)
             hour == IF h12 = 12 THEN 0 ELSE h12
         IN  IF Bit(hour_reg, 5) = 1 THEN hour + 12 ELSE hour

\* a decode that ignores the century flag, as the draft max31335_get_time does
read_time_century_mut(date) ==
    [tm_sec  |-> bcd2bin(date[1] % 128),
     tm_min  |-> bcd2bin(date[2] % 128),
     tm_hour |-> max31335_get_hour(date[3]),
     tm_wday |-> bcd2bin(date[4] % 8) - 1,
     tm_mday |-> bcd2bin(date[5] % 64),
     tm_mon  |-> bcd2bin(date[6] % 32) - 1,
     tm_year |-> bcd2bin(date[7]) + 100]

\* the decode of read_time: date is the 7-byte block read at SECONDS
read_time_decode(date) ==
    [tm_sec  |-> bcd2bin(date[1] % 128),
     tm_min  |-> bcd2bin(date[2] % 128),
     tm_hour |-> max31335_get_hour(date[3]),
     tm_wday |-> bcd2bin(date[4] % 8) - 1,
     tm_mday |-> bcd2bin(date[5] % 64),
     tm_mon  |-> bcd2bin(date[6] % 32) - 1,
     tm_year |-> bcd2bin(date[7]) + 100
                 + (IF Bit(date[6], 7) = 1 THEN 100 ELSE 0)]

\* an encode that stores the weekday 0-based, as the draft set_time does
set_time_wday_mut(tm) ==
    <<bin2bcd(tm.tm_sec),
      bin2bcd(tm.tm_min),
      bin2bcd(tm.tm_hour),
      tm.tm_wday,
      bin2bcd(tm.tm_mday),
      WithBit(bin2bcd(tm.tm_mon + 1), 7, IF tm.tm_year >= 200 THEN 1 ELSE 0),
      bin2bcd(tm.tm_year % 100)>>

\* the encode of set_time: the 7-byte block written at SECONDS
set_time_encode(tm) ==
    <<bin2bcd(tm.tm_sec),
      bin2bcd(tm.tm_min),
      bin2bcd(tm.tm_hour),
      bin2bcd(tm.tm_wday + 1),
      bin2bcd(tm.tm_mday),
      IF tm.tm_year >= 200
      THEN WithBit(bin2bcd(tm.tm_mon + 1), 7, 1)
      ELSE bin2bcd(tm.tm_mon + 1),
      bin2bcd(tm.tm_year % 100)>>

\* the decode of read_alarm before the century is known: block is the
\* 6-byte block read at ALM1_SEC
read_alarm_decode(block) ==
    [tm_sec  |-> bcd2bin(block[1] % 128),
     tm_min  |-> bcd2bin(block[2] % 128),
     tm_hour |-> bcd2bin(block[3] % 64),
     tm_wday |-> 0,
     tm_mday |-> bcd2bin(block[4] % 64),
     tm_mon  |-> bcd2bin(block[5] % 32) - 1,
     tm_year |-> bcd2bin(block[6]) + 100]

\* a read_alarm that never adds the century, as the draft get_alarm does
read_alarm_century_mut(alarm_tm, time) == alarm_tm

\* if (time.tm_year >= 200) alrm->time.tm_year += 100
read_alarm_century(alarm_tm, time) ==
    IF time.tm_year >= 200
    THEN [alarm_tm EXCEPT !.tm_year = @ + 100]
    ELSE alarm_tm

\* the encode of set_alarm: the 6-byte block written at ALM1_SEC
set_alarm_encode(tm) ==
    <<bin2bcd(tm.tm_sec),
      bin2bcd(tm.tm_min),
      bin2bcd(tm.tm_hour),
      bin2bcd(tm.tm_mday),
      bin2bcd(tm.tm_mon + 1),
      bin2bcd(tm.tm_year % 100)>>

----------------------------------------------------------------------------
(* regmap                                                                  *)

regmap_bulk_read(r, base, n) == [i \in 1..n |-> r[base + i - 1]]

regmap_bulk_write(r, base, block) ==
    [a \in Addr |-> IF a >= base /\ a < base + Len(block)
                    THEN block[a - base + 1] ELSE r[a]]

\* val_bits = 8: the value is truncated to the register width
regmap_write(r, reg, val) == [r EXCEPT ![reg] = val % 256]

\* regmap_update_bits with a one-bit mask BIT(n)
regmap_update_bits(r, reg, n, val) ==
    [r EXCEPT ![reg] = WithBit(@, n, Bit(val, n))]

\* a & b for bytes a and b
BitAnd(a, b) ==
    LET and[n \in 0..8] ==
            IF n = 8 THEN 0 ELSE Bit(a, n) * Bit(b, n) * (2 ^ n) + and[n + 1]
    IN  and[0]

\* regmap_update_bits with any mask: (old & ~mask) | (val & mask)
regmap_update_bits_mask(r, reg, mask, val) ==
    [r EXCEPT ![reg] = @ - BitAnd(@, mask) + BitAnd(val % 256, mask)]

----------------------------------------------------------------------------
(* Calls, results and bus faults                                           *)

\* struct rtc_time with every field zero
ZeroTm ==
    [tm_sec |-> 0, tm_min |-> 0, tm_hour |-> 0, tm_wday |-> 0,
     tm_mday |-> 0, tm_mon |-> 0, tm_year |-> 0]

\* the arguments of a callback: struct rtc_time / rtc_wkalrm, enabled, offset
Arg(tm, enabled, offset) ==
    [time |-> tm, enabled |-> enabled, offset |-> offset]

NoArg == Arg(ZeroTm, 0, 0)

\* the out-parameters of a callback, before the callback has filled them
NoOut == [time |-> ZeroTm, enabled |-> 0, pending |-> 0, offset |-> 0]

\* The regmap transactions each function issues, in program order.  A bus
\* fault names one of them: that transaction fails with -EIO.
Transactions(op) ==
    CASE op = "read_time"        -> <<"bulk_read SECONDS">>
      [] op = "set_time"         -> <<"bulk_write SECONDS">>
      [] op = "read_offset"      -> <<"read AGING_OFFSET">>
      [] op = "set_offset"       -> <<"write AGING_OFFSET">>
      [] op = "read_alarm"       -> <<"bulk_read ALM1_SEC", "bulk_read SECONDS",
                                      "read INT_EN", "read STATUS1">>
      [] op = "set_alarm"        -> <<"bulk_write ALM1_SEC", "update_bits INT_EN",
                                      "update_bits STATUS1">>
      [] op = "alarm_irq_enable" -> <<"update_bits INT_EN">>
      [] op = "handle_irq"       -> <<"read STATUS1", "update_bits STATUS1">>

Faults(op) ==
    {"none"} \cup {Transactions(op)[i] : i \in 1..Len(Transactions(op))}

RtcIdle ==
    [op |-> "none", pc |-> "idle", arg |-> NoArg, fault |-> "none",
     ret |-> "none", out |-> NoOut, ctrl |-> 0, log |-> <<>>, hw |-> FALSE]

IrqIdle ==
    [pc |-> "idle", status |-> 0, fault |-> "none", ret |-> "none",
     log |-> <<>>, hw |-> FALSE]

NoTime == [valid |-> FALSE, tm |-> ZeroTm]

\* one transaction of the running callback: it is logged, and it fails when
\* the bus fault of this call names it
Fails(t, what) == t.fault = what

Return(r, ret) == [r EXCEPT !.pc = "ret", !.ret = ret]

----------------------------------------------------------------------------
(* The RTC core: it serialises the rtc_class_ops under rtc->ops_lock       *)

rtc_call(op, arg, fault) ==
    /\ rtc.pc = "idle"
    /\ rtc' = [RtcIdle EXCEPT !.op = op, !.pc = "lock", !.arg = arg,
                              !.fault = fault]
    /\ UNCHANGED <<regs, ops_lock, irq, notified, fired, lastSet, clk, probe, vol>>

rtc_lock ==
    /\ rtc.pc = "lock"
    /\ ops_lock = "free"
    /\ ops_lock' = "rtc"
    /\ rtc' = [rtc EXCEPT !.pc = rtc.op]
    /\ UNCHANGED <<regs, irq, notified, fired, lastSet, clk, probe, vol>>

rtc_unlock ==
    /\ rtc.pc = "ret"
    /\ ops_lock' = "free"
    /\ rtc' = RtcIdle
    /\ UNCHANGED <<regs, irq, notified, fired, lastSet, clk, probe, vol>>

----------------------------------------------------------------------------
(* rtc_class_ops                                                           *)

max31335_read_time ==
    /\ rtc.pc = "read_time"
    /\ LET t == [rtc EXCEPT !.log = Append(@, "bulk_read SECONDS")]
           date == regmap_bulk_read(regs, MAX31335_SECONDS, TimeSize)
       IN  IF Fails(t, "bulk_read SECONDS")
           THEN rtc' = Return(t, "EIO")
           ELSE rtc' = Return([t EXCEPT !.out.time = read_time_decode(date)], "0")
    /\ UNCHANGED <<regs, ops_lock, irq, notified, fired, lastSet, clk, probe, vol>>

max31335_set_time ==
    /\ rtc.pc = "set_time"
    /\ LET t == [rtc EXCEPT !.log = Append(@, "bulk_write SECONDS")]
           date == set_time_encode(rtc.arg.time)
       IN  IF Fails(t, "bulk_write SECONDS")
           THEN /\ rtc' = Return(t, "EIO")
                /\ lastSet' = NoTime
                /\ UNCHANGED regs
           ELSE /\ rtc' = Return(t, "0")
                /\ regs' = regmap_bulk_write(regs, MAX31335_SECONDS, date)
                /\ lastSet' = [valid |-> TRUE, tm |-> rtc.arg.time]
    /\ UNCHANGED <<ops_lock, irq, notified, fired, clk, probe, vol>>

max31335_read_offset ==
    /\ rtc.pc = "read_offset"
    /\ LET t == [rtc EXCEPT !.log = Append(@, "read AGING_OFFSET")]
       IN  IF Fails(t, "read AGING_OFFSET")
           THEN rtc' = Return(t, "EIO")
           ELSE rtc' = Return([t EXCEPT !.out.offset = regs[MAX31335_AGING_OFFSET]], "0")
    /\ UNCHANGED <<regs, ops_lock, irq, notified, fired, lastSet, clk, probe, vol>>

max31335_set_offset ==
    /\ rtc.pc = "set_offset"
    /\ LET t == [rtc EXCEPT !.log = Append(@, "write AGING_OFFSET")]
       IN  IF Fails(t, "write AGING_OFFSET")
           THEN /\ rtc' = Return(t, "EIO")
                /\ UNCHANGED regs
           ELSE /\ rtc' = Return(t, "0")
                /\ regs' = regmap_write(regs, MAX31335_AGING_OFFSET, rtc.arg.offset)
    /\ UNCHANGED <<ops_lock, irq, notified, fired, lastSet, clk, probe, vol>>

\* read_alarm, lines 236-245: the bulk read of the alarm block and its decode
max31335_read_alarm ==
    /\ rtc.pc = "read_alarm"
    /\ LET t == [rtc EXCEPT !.log = Append(@, "bulk_read ALM1_SEC")]
           block == regmap_bulk_read(regs, MAX31335_ALM1_SEC, AlarmSize)
       IN  IF Fails(t, "bulk_read ALM1_SEC")
           THEN rtc' = Return(t, "EIO")
           ELSE rtc' = [t EXCEPT !.out.time = read_alarm_decode(block),
                                 !.pc = "read_alarm_time"]
    /\ UNCHANGED <<regs, ops_lock, irq, notified, fired, lastSet, clk, probe, vol>>

\* read_alarm, lines 247-252: the live time gives the alarm its century
max31335_read_alarm_time ==
    /\ rtc.pc = "read_alarm_time"
    /\ LET t == [rtc EXCEPT !.log = Append(@, "bulk_read SECONDS")]
           date == regmap_bulk_read(regs, MAX31335_SECONDS, TimeSize)
       IN  IF Fails(t, "bulk_read SECONDS")
           THEN rtc' = Return(t, "EIO")
           ELSE rtc' = [t EXCEPT !.out.time =
                                     read_alarm_century(@, read_time_decode(date)),
                                 !.pc = "read_alarm_ctrl"]
    /\ UNCHANGED <<regs, ops_lock, irq, notified, fired, lastSet, clk, probe, vol>>

\* read_alarm, lines 254-256
max31335_read_alarm_ctrl ==
    /\ rtc.pc = "read_alarm_ctrl"
    /\ LET t == [rtc EXCEPT !.log = Append(@, "read INT_EN")]
       IN  IF Fails(t, "read INT_EN")
           THEN rtc' = Return(t, "EIO")
           ELSE rtc' = [t EXCEPT !.ctrl = regs[MAX31335_INT_EN],
                                 !.pc = "read_alarm_status"]
    /\ UNCHANGED <<regs, ops_lock, irq, notified, fired, lastSet, clk, probe, vol>>

\* read_alarm, lines 258-265
max31335_read_alarm_status ==
    /\ rtc.pc = "read_alarm_status"
    /\ LET t == [rtc EXCEPT !.log = Append(@, "read STATUS1")]
       IN  IF Fails(t, "read STATUS1")
           THEN rtc' = Return(t, "EIO")
           ELSE rtc' = Return([t EXCEPT !.out.enabled = A1IE(rtc.ctrl),
                                        !.out.pending = A1F(regs[MAX31335_STATUS1])],
                              "0")
    /\ UNCHANGED <<regs, ops_lock, irq, notified, fired, lastSet, clk, probe, vol>>

\* set_alarm, lines 275-285: encode and bulk-write the alarm block
max31335_set_alarm ==
    /\ rtc.pc = "set_alarm"
    /\ LET t == [rtc EXCEPT !.log = Append(@, "bulk_write ALM1_SEC")]
           block == set_alarm_encode(rtc.arg.time)
       IN  IF Fails(t, "bulk_write ALM1_SEC")
           THEN /\ rtc' = Return(t, "EIO")
                /\ UNCHANGED regs
           ELSE /\ rtc' = [t EXCEPT !.pc = "set_alarm_enable"]
                /\ regs' = regmap_bulk_write(regs, MAX31335_ALM1_SEC, block)
    /\ UNCHANGED <<ops_lock, irq, notified, fired, lastSet, clk, probe, vol>>

\* set_alarm, lines 287-289: the result of the INT_EN update is returned;
\* the statements after it (lines 290-294) are never reached
max31335_set_alarm_enable ==
    /\ rtc.pc = "set_alarm_enable"
    /\ LET t == [rtc EXCEPT !.log = Append(@, "update_bits INT_EN")]
       IN  IF Fails(t, "update_bits INT_EN")
           THEN /\ rtc' = Return(t, "EIO")
                /\ UNCHANGED regs
           ELSE /\ rtc' = Return(t, "0")
                /\ regs' = regmap_update_bits(regs, MAX31335_INT_EN, 0,
                                              rtc.arg.enabled)
    /\ UNCHANGED <<ops_lock, irq, notified, fired, lastSet, clk, probe, vol>>

\* the draft callback: it clears the pending flag A1F and always sets A1IE
max31335_alarm_irq_enable_mut ==
    /\ rtc.pc = "alarm_irq_enable"
    /\ LET t == [rtc EXCEPT !.log = Append(@, "update_bits INT_EN")]
       IN  IF Fails(t, "update_bits INT_EN")
           THEN /\ rtc' = Return(t, "EIO")
                /\ UNCHANGED regs
           ELSE /\ rtc' = Return(t, "0")
                /\ regs' = regmap_update_bits(
                               regmap_update_bits(regs, MAX31335_STATUS1, 0, 0),
                               MAX31335_INT_EN, 0, 1)
    /\ UNCHANGED <<ops_lock, irq, notified, fired, lastSet, clk, probe, vol>>

max31335_alarm_irq_enable ==
    /\ rtc.pc = "alarm_irq_enable"
    /\ LET t == [rtc EXCEPT !.log = Append(@, "update_bits INT_EN")]
       IN  IF Fails(t, "update_bits INT_EN")
           THEN /\ rtc' = Return(t, "EIO")
                /\ UNCHANGED regs
           ELSE /\ rtc' = Return(t, "0")
                /\ regs' = regmap_update_bits(regs, MAX31335_INT_EN, 0,
                                              rtc.arg.enabled)
    /\ UNCHANGED <<ops_lock, irq, notified, fired, lastSet, clk, probe, vol>>

----------------------------------------------------------------------------
(* The threaded interrupt handler max31335_handle_irq                      *)

\* the interrupt subsystem runs the handler (IRQF_ONESHOT: one at a time)
irq_raise(fault) ==
    /\ irq.pc \in {"idle", "returned"}
    /\ irq' = [IrqIdle EXCEPT !.pc = "lock", !.fault = fault]
    /\ UNCHANGED <<regs, ops_lock, rtc, notified, fired, lastSet, clk, probe, vol>>

\* a handler that enters without taking the mutex
max31335_handle_irq_lock_mut ==
    /\ irq.pc = "lock"
    /\ irq' = [irq EXCEPT !.pc = "read"]
    /\ UNCHANGED <<regs, ops_lock, rtc, notified, fired, lastSet, clk, probe, vol>>

\* mutex_lock(lock)
max31335_handle_irq_lock ==
    /\ irq.pc = "lock"
    /\ ops_lock = "free"
    /\ ops_lock' = "irq"
    /\ irq' = [irq EXCEPT !.pc = "read"]
    /\ UNCHANGED <<regs, rtc, notified, fired, lastSet, clk, probe, vol>>

\* a handler that acknowledges and notifies without testing A1F
max31335_handle_irq_read_mut ==
    /\ irq.pc = "read"
    /\ LET h == [irq EXCEPT !.log = Append(@, "read STATUS1")]
           status == regs[MAX31335_STATUS1]
       IN  IF Fails(h, "read STATUS1")
           THEN irq' = [h EXCEPT !.pc = "exit"]
           ELSE irq' = [h EXCEPT !.status = status, !.pc = "clear"]
    /\ UNCHANGED <<regs, ops_lock, rtc, notified, fired, lastSet, clk, probe, vol>>

\* regmap_read(STATUS1) and the test of A1F
max31335_handle_irq_read ==
    /\ irq.pc = "read"
    /\ LET h == [irq EXCEPT !.log = Append(@, "read STATUS1")]
           status == regs[MAX31335_STATUS1]
       IN  IF Fails(h, "read STATUS1")
           THEN irq' = [h EXCEPT !.pc = "exit"]
           ELSE irq' = [h EXCEPT !.status = status,
                                 !.pc = IF A1F(status) = 1 THEN "clear" ELSE "exit"]
    /\ UNCHANGED <<regs, ops_lock, rtc, notified, fired, lastSet, clk, probe, vol>>

\* a handler that notifies even though the clear failed
max31335_handle_irq_clear_mut ==
    /\ irq.pc = "clear"
    /\ LET h == [irq EXCEPT !.log = Append(@, "update_bits STATUS1")]
       IN  IF Fails(h, "update_bits STATUS1")
           THEN /\ irq' = [h EXCEPT !.pc = "notify"]
                /\ UNCHANGED regs
           ELSE /\ irq' = [h EXCEPT !.pc = "notify", !.hw = FALSE]
                /\ regs' = regmap_update_bits(regs, MAX31335_STATUS1, 0, 0)
    /\ UNCHANGED <<ops_lock, rtc, notified, fired, lastSet, clk, probe, vol>>

\* a handler whose update_bits uses the wrong mask, BIT(1)
max31335_handle_irq_clear_mask_mut ==
    /\ irq.pc = "clear"
    /\ LET h == [irq EXCEPT !.log = Append(@, "update_bits STATUS1")]
       IN  IF Fails(h, "update_bits STATUS1")
           THEN /\ irq' = [h EXCEPT !.pc = "exit"]
                /\ UNCHANGED regs
           ELSE /\ irq' = [h EXCEPT !.pc = "notify", !.hw = FALSE]
                /\ regs' = regmap_update_bits(regs, MAX31335_STATUS1, 1, 0)
    /\ UNCHANGED <<ops_lock, rtc, notified, fired, lastSet, clk, probe, vol>>

\* regmap_update_bits(STATUS1, A1F, 0)
max31335_handle_irq_clear ==
    /\ irq.pc = "clear"
    /\ LET h == [irq EXCEPT !.log = Append(@, "update_bits STATUS1")]
       IN  IF Fails(h, "update_bits STATUS1")
           THEN /\ irq' = [h EXCEPT !.pc = "exit"]
                /\ UNCHANGED regs
           ELSE /\ irq' = [h EXCEPT !.pc = "notify", !.hw = FALSE]
                /\ regs' = regmap_update_bits(regs, MAX31335_STATUS1, 0, 0)
    /\ UNCHANGED <<ops_lock, rtc, notified, fired, lastSet, clk, probe, vol>>

\* rtc_update_irq(max31335->rtc, 1, RTC_AF | RTC_IRQF)
max31335_handle_irq_notify ==
    /\ irq.pc = "notify"
    /\ notified' = notified + 1
    /\ irq' = [irq EXCEPT !.log = Append(@, "rtc_update_irq"), !.pc = "exit"]
    /\ UNCHANGED <<regs, ops_lock, rtc, fired, lastSet, clk, probe, vol>>

\* exit: mutex_unlock(lock); return IRQ_HANDLED
max31335_handle_irq_exit ==
    /\ irq.pc = "exit"
    /\ ops_lock' = "free"
    /\ irq' = [irq EXCEPT !.pc = "returned", !.ret = "IRQ_HANDLED"]
    /\ UNCHANGED <<regs, rtc, notified, fired, lastSet, clk, probe, vol>>

----------------------------------------------------------------------------
(* The chip                                                                *)

\* bound on the number of alarm matches the chip latches in one run
MaxFires == 2

\* the alarm matches: the chip latches A1F in STATUS1
alarm_fires ==
    /\ fired < MaxFires
    /\ A1F(regs[MAX31335_STATUS1]) = 0
    /\ regs' = [regs EXCEPT ![MAX31335_STATUS1] = WithBit(@, 0, 1)]
    /\ fired' = fired + 1
    /\ rtc' = IF rtc.pc = "idle" THEN rtc ELSE [rtc EXCEPT !.hw = TRUE]
    /\ irq' = IF irq.pc = "idle" THEN irq ELSE [irq EXCEPT !.hw = TRUE]
    /\ UNCHANGED <<ops_lock, notified, lastSet, clk, probe, vol>>

----------------------------------------------------------------------------
(* The clock output: clk_ops max31335_clkout_ops                           *)

\* max31335_clkout_freq[0..3]; a TLA+ sequence counts from 1
max31335_clkout_freq == <<1, 64, 1024, 32768>>

\* MAX31335_ENCLKO is BIT(2) of RTC_CONFIG2
ENCLKO(v) == Bit(v, 2)

\* DIV_ROUND_CLOSEST(x, divisor) of linux/math.h for unsigned operands
DIV_ROUND_CLOSEST(x, divisor) == (x + divisor \div 2) \div divisor

\* find_closest(x, a, ARRAY_SIZE(a)) of linux/util_macros.h: the first index
\* i (from 0) with x <= DIV_ROUND_CLOSEST(a[i] + a[i + 1], 2), else the last
find_closest(x, a) ==
    LET stops == {i \in 0 .. Len(a) - 2 :
                    x <= DIV_ROUND_CLOSEST(a[i + 1] + a[i + 2], 2)}
    IN  IF stops = {} THEN Len(a) - 1
        ELSE CHOOSE i \in stops : \A k \in stops : i <= k

\* __roundup_pow_of_two(n) for n in 1..256
roundup_pow_of_two(n) ==
    CHOOSE p \in {2 ^ k : k \in 0..8} :
        p >= n /\ \A q \in {2 ^ k : k \in 0..8} : q >= n => p <= q

freq_mask == roundup_pow_of_two(Len(max31335_clkout_freq)) - 1

\* the value max31335_clkout_round_rate returns
round_rate(rate) ==
    max31335_clkout_freq[find_closest(rate, max31335_clkout_freq) + 1]

\* no call in progress; last is the rate of the last successful set_rate
ClkIdle ==
    [op |-> "none", pc |-> "idle", rate |-> 0, fault |-> FALSE,
     ret |-> "none", out |-> 0, last |-> 0 - 1]

\* the clock framework calls one callback at a time; fault says whether the
\* callback's bus transaction fails
clk_call(op, rate, fault) ==
    /\ clk.pc = "idle"
    /\ clk' = [clk EXCEPT !.op = op, !.pc = op, !.rate = rate, !.fault = fault]
    /\ UNCHANGED <<regs, ops_lock, rtc, irq, notified, fired, lastSet, probe, vol>>

clk_return ==
    /\ clk.pc = "ret"
    /\ clk' = [ClkIdle EXCEPT !.last = clk.last]
    /\ UNCHANGED <<regs, ops_lock, rtc, irq, notified, fired, lastSet, probe, vol>>

max31335_clkout_recalc_rate ==
    /\ clk.pc = "recalc_rate"
    /\ clk' = [clk EXCEPT
                 !.pc = "ret",
                 !.out = IF clk.fault THEN 0
                         ELSE max31335_clkout_freq[
                                 BitAnd(regs[MAX31335_RTC_CONFIG2], freq_mask) + 1]]
    /\ UNCHANGED <<regs, ops_lock, rtc, irq, notified, fired, lastSet, probe, vol>>

max31335_clkout_round_rate ==
    /\ clk.pc = "round_rate"
    /\ clk' = [clk EXCEPT !.pc = "ret", !.out = round_rate(clk.rate)]
    /\ UNCHANGED <<regs, ops_lock, rtc, irq, notified, fired, lastSet, probe, vol>>

max31335_clkout_set_rate ==
    /\ clk.pc = "set_rate"
    /\ IF clk.fault
       THEN /\ clk' = [clk EXCEPT !.pc = "ret", !.ret = "EIO"]
            /\ UNCHANGED regs
       ELSE /\ clk' = [clk EXCEPT !.pc = "ret", !.ret = "0", !.last = clk.rate]
            /\ regs' = regmap_update_bits_mask(
                           regs, MAX31335_RTC_CONFIG2, freq_mask,
                           find_closest(clk.rate, max31335_clkout_freq))
    /\ UNCHANGED <<ops_lock, rtc, irq, notified, fired, lastSet, probe, vol>>

\* regmap_set_bits(RTC_CONFIG2, MAX31335_ENCLKO)
max31335_clkout_enable ==
    /\ clk.pc = "enable"
    /\ IF clk.fault
       THEN /\ clk' = [clk EXCEPT !.pc = "ret", !.ret = "EIO"]
            /\ UNCHANGED regs
       ELSE /\ clk' = [clk EXCEPT !.pc = "ret", !.ret = "0"]
            /\ regs' = [regs EXCEPT ![MAX31335_RTC_CONFIG2] = WithBit(@, 2, 1)]
    /\ UNCHANGED <<ops_lock, rtc, irq, notified, fired, lastSet, probe, vol>>

\* regmap_clear_bits(RTC_CONFIG2, MAX31335_ENCLKO), its result dropped
max31335_clkout_disable ==
    /\ clk.pc = "disable"
    /\ clk' = [clk EXCEPT !.pc = "ret"]
    /\ IF clk.fault
       THEN UNCHANGED regs
       ELSE regs' = [regs EXCEPT ![MAX31335_RTC_CONFIG2] = WithBit(@, 2, 0)]
    /\ UNCHANGED <<ops_lock, rtc, irq, notified, fired, lastSet, probe, vol>>

max31335_clkout_is_enabled ==
    /\ clk.pc = "is_enabled"
    /\ clk' = IF clk.fault
              THEN [clk EXCEPT !.pc = "ret", !.ret = "EIO"]
              ELSE [clk EXCEPT !.pc = "ret", !.ret = "0",
                               !.out = ENCLKO(regs[MAX31335_RTC_CONFIG2])]
    /\ UNCHANGED <<regs, ops_lock, rtc, irq, notified, fired, lastSet, probe, vol>>

----------------------------------------------------------------------------
(* max31335_probe and the trickle-charger setup                            *)

\* max31335_trickle_resistors[0..2]; a TLA+ sequence counts from 1
max31335_trickle_resistors == <<3000, 6000, 11000>>

\* FIELD_PREP(MAX31335_TRICKLE, i) | MAX31335_EN_TRICKLE: the field is
\* GENMASK(3, 1), the enable bit BIT(0)
TrickleByte(i) == BitAnd((i * 2) % 256, 14) + 1

\* the index at which the loop over max31335_trickle_resistors stops
TrickleIndex(ohms) ==
    LET hits == {i \in 0 .. Len(max31335_trickle_resistors) - 1 :
                   ohms = max31335_trickle_resistors[i + 1]}
    IN  IF hits = {} THEN Len(max31335_trickle_resistors)
        ELSE CHOOSE i \in hits : \A k \in hits : i <= k

\* what the firmware node and the platform give the probe: the interrupt
\* line (0: none), the result of devm_request_threaded_irq, the properties
\* trickle-resistor-ohms, trickle-diode-enable and #clock-cells, and the
\* call of the probe that fails, if any
ProbeConfig(client_irq, irq_req, has_ohms, ohms, diode, clock_cells, fail) ==
    [client_irq |-> client_irq, irq_req |-> irq_req, has_ohms |-> has_ohms,
     ohms |-> ohms, diode |-> diode, clock_cells |-> clock_cells,
     fail |-> fail]

\* the probe before its first statement
ProbeStart(cfg) ==
    [cfg |-> cfg, pc |-> "start", client_irq |-> cfg.client_irq,
     ret |-> "none", registered |-> FALSE, alarm |-> FALSE,
     handler |-> FALSE, trickle |-> "none", writes |-> <<>>]

\* the device bound with a working interrupt line and no trickle charger
ProbeBound ==
    [ProbeStart(ProbeConfig(1, "0", FALSE, 0, FALSE, FALSE, "none")) EXCEPT
        !.pc = "done", !.ret = "0", !.registered = TRUE, !.alarm = TRUE,
        !.handler = TRUE, !.trickle = "0"]

\* a step of the probe that fails returns; devm unregisters the device
ProbeFails(ret) ==
    [probe EXCEPT !.pc = "done", !.ret = ret, !.registered = FALSE]

\* lines 498-500: regmap_read(STATUS1)
max31335_probe_read_status ==
    /\ probe.pc = "start"
    /\ probe' = IF probe.cfg.fail = "read STATUS1"
                THEN ProbeFails("EIO")
                ELSE [probe EXCEPT !.pc = "allocate"]
    /\ UNCHANGED <<regs, ops_lock, rtc, irq, notified, fired, lastSet, clk, vol>>

\* lines 502-508: devm_rtc_allocate_device, which sets RTC_FEATURE_ALARM
max31335_probe_allocate ==
    /\ probe.pc = "allocate"
    /\ probe' = IF probe.cfg.fail = "rtc_allocate"
                THEN ProbeFails("ENOMEM")
                ELSE [probe EXCEPT !.pc = "register", !.alarm = TRUE]
    /\ UNCHANGED <<regs, ops_lock, rtc, irq, notified, fired, lastSet, clk, vol>>

\* lines 510-512: devm_rtc_register_device
max31335_probe_register ==
    /\ probe.pc = "register"
    /\ probe' = IF probe.cfg.fail = "rtc_register"
                THEN ProbeFails("EINVAL")
                ELSE [probe EXCEPT !.pc = "clkout", !.registered = TRUE]
    /\ UNCHANGED <<regs, ops_lock, rtc, irq, notified, fired, lastSet, clk, vol>>

\* lines 514-516: max31335_clkout_register; clk_prepare_enable runs
\* max31335_clkout_enable
max31335_clkout_register ==
    /\ probe.pc = "clkout"
    /\ IF ~probe.cfg.clock_cells
       THEN /\ probe' = [probe EXCEPT !.pc = "request_irq"]
            /\ UNCHANGED regs
       ELSE IF probe.cfg.fail = "clk_register"
       THEN /\ probe' = ProbeFails("EINVAL")
            /\ UNCHANGED regs
       ELSE /\ probe' = [probe EXCEPT !.pc = "request_irq"]
            /\ regs' = [regs EXCEPT ![MAX31335_RTC_CONFIG2] = WithBit(@, 2, 1)]
    /\ UNCHANGED <<ops_lock, rtc, irq, notified, fired, lastSet, clk, vol>>

\* lines 518-528: devm_request_threaded_irq when there is a line
max31335_probe_request_irq ==
    /\ probe.pc = "request_irq"
    /\ probe' = IF probe.client_irq > 0
                THEN IF probe.cfg.irq_req = "0"
                     THEN [probe EXCEPT !.pc = "features", !.handler = TRUE]
                     ELSE [probe EXCEPT !.pc = "features", !.client_irq = 0]
                ELSE [probe EXCEPT !.pc = "features"]
    /\ UNCHANGED <<regs, ops_lock, rtc, irq, notified, fired, lastSet, clk, vol>>

\* lines 530-531: clear_bit(RTC_FEATURE_ALARM) without an interrupt
max31335_probe_features ==
    /\ probe.pc = "features"
    /\ probe' = IF probe.client_irq = 0
                THEN [probe EXCEPT !.pc = "trickle", !.alarm = FALSE]
                ELSE [probe EXCEPT !.pc = "trickle"]
    /\ UNCHANGED <<regs, ops_lock, rtc, irq, notified, fired, lastSet, clk, vol>>

\* a setup that selects index + 1 whether or not the diode is enabled
max31335_trickle_charger_setup_mut ==
    /\ probe.pc = "trickle"
    /\ LET i == TrickleIndex(probe.cfg.ohms)
           val == TrickleByte(i + 1)
           done == [probe EXCEPT !.pc = "done", !.ret = "0"]
       IN  IF ~probe.cfg.has_ohms \/ i >= Len(max31335_trickle_resistors)
           THEN /\ probe' = [done EXCEPT !.trickle = "0"]
                /\ UNCHANGED regs
           ELSE IF probe.cfg.fail = "write TRICKLE_REG"
           THEN /\ probe' = [done EXCEPT
                               !.trickle = "EIO",
                               !.writes = Append(@, <<MAX31335_TRICKLE_REG, val>>)]
                /\ UNCHANGED regs
           ELSE /\ probe' = [done EXCEPT
                               !.trickle = "0",
                               !.writes = Append(@, <<MAX31335_TRICKLE_REG, val>>)]
                /\ regs' = regmap_write(regs, MAX31335_TRICKLE_REG, val)
    /\ UNCHANGED <<ops_lock, rtc, irq, notified, fired, lastSet, clk, vol>>

\* lines 533-535: max31335_trickle_charger_setup, its result dropped, and
\* return 0; writes lists the register writes it attempts
max31335_trickle_charger_setup ==
    /\ probe.pc = "trickle"
    /\ LET i == TrickleIndex(probe.cfg.ohms)
           val == TrickleByte(IF probe.cfg.diode THEN i + 4 ELSE i + 1)
           done == [probe EXCEPT !.pc = "done", !.ret = "0"]
       IN  IF ~probe.cfg.has_ohms \/ i >= Len(max31335_trickle_resistors)
           THEN /\ probe' = [done EXCEPT !.trickle = "0"]
                /\ UNCHANGED regs
           ELSE IF probe.cfg.fail = "write TRICKLE_REG"
           THEN /\ probe' = [done EXCEPT
                               !.trickle = "EIO",
                               !.writes = Append(@, <<MAX31335_TRICKLE_REG, val>>)]
                /\ UNCHANGED regs
           ELSE /\ probe' = [done EXCEPT
                               !.trickle = "0",
                               !.writes = Append(@, <<MAX31335_TRICKLE_REG, val>>)]
                /\ regs' = regmap_write(regs, MAX31335_TRICKLE_REG, val)
    /\ UNCHANGED <<ops_lock, rtc, irq, notified, fired, lastSet, clk, vol>>

----------------------------------------------------------------------------
(* regmap_config.volatile_reg                                              *)

MAX31335_TEMP_DATA_MSB == 53
MAX31335_TEMP_DATA_LSB == 54

\* MAX31335_INT_EN1_A1IE is BIT(0), used here as a register address
MAX31335_INT_EN1_A1IE == 1

\* regmap_config.max_register
max_register == 95

\* the values max31335_volatile_reg can return for reg.  The third test is
\* (reg == MAX31335_TEMP_DATA_MSB || MAX31335_TEMP_DATA_LSB), true for a
\* nonzero MAX31335_TEMP_DATA_LSB; past it the function ends without a
\* return statement, where any value can come back.  MAX31335_TIME_SIZE
\* has no definition in the file; the seven time registers are taken.
max31335_volatile_reg(reg) ==
    IF reg >= MAX31335_SECONDS /\ reg < MAX31335_SECONDS + TimeSize
    THEN {TRUE}
    ELSE IF reg = MAX31335_INT_EN1_A1IE
    THEN {TRUE}
    ELSE IF reg = MAX31335_TEMP_DATA_MSB \/ MAX31335_TEMP_DATA_LSB /= 0
    THEN {TRUE}
    ELSE BOOLEAN

\* regmap has no question open
VolIdle == [pc |-> "idle", reg |-> 0, volatile |-> FALSE]

\* regmap asks whether a register within max_register is volatile
regmap_volatile(reg) ==
    /\ vol.pc \in {"idle", "answered"}
    /\ vol' = [pc |-> "asked", reg |-> reg, volatile |-> FALSE]
    /\ UNCHANGED <<regs, ops_lock, rtc, irq, notified, fired, lastSet, clk, probe>>

max31335_volatile_reg_call ==
    /\ vol.pc = "asked"
    /\ \E v \in max31335_volatile_reg(vol.reg) :
          vol' = [vol EXCEPT !.pc = "answered", !.volatile = v]
    /\ UNCHANGED <<regs, ops_lock, rtc, irq, notified, fired, lastSet, clk, probe>>

----------------------------------------------------------------------------
(* The driver with its interrupt handler and the chip: specification Spec  *)

Tm(year, mon, mday, wday, hour, min, sec) ==
    [tm_sec |-> sec, tm_min |-> min, tm_hour |-> hour, tm_wday |-> wday,
     tm_mday |-> mday, tm_mon |-> mon, tm_year |-> year]

\* 2000-01-01 (a Saturday) 00:00:00, the time the chip starts from
Epoch == Tm(100, 0, 1, 6, 0, 0, 0)

\* Thursday 2150-12-31 23:59:58 is set as the time, Thursday 2024-02-29
\* 13:45:59 as the alarm
SetTimes == {Tm(250, 11, 31, 4, 23, 59, 58)}

SetAlarms == {Tm(124, 1, 29, 4, 13, 45, 59)}

SetOffsets == {0 - 3}

\* the calls the RTC core makes into the driver
Calls ==
    {[op |-> "read_time", arg |-> NoArg],
     [op |-> "read_alarm", arg |-> NoArg],
     [op |-> "read_offset", arg |-> NoArg]}
    \cup {[op |-> "set_time", arg |-> Arg(tm, 0, 0)] : tm \in SetTimes}
    \cup {[op |-> "set_alarm", arg |-> Arg(tm, e, 0)] :
            tm \in SetAlarms, e \in {0, 1}}
    \cup {[op |-> "alarm_irq_enable", arg |-> Arg(ZeroTm, e, 0)] : e \in {0, 1}}
    \cup {[op |-> "set_offset", arg |-> Arg(ZeroTm, 0, v)] : v \in SetOffsets}

\* the registers at the time the driver is bound: the alarm flag may be
\* latched already, and INT_EN holds any of these bytes
InitStatus == {0, 1}

InitIntEn == {0, 1, 6, 7}

InitRegs(date, block, status, int_en) ==
    [a \in Addr |->
        IF a = MAX31335_STATUS1 THEN status
        ELSE IF a = MAX31335_INT_EN THEN int_en
        ELSE IF a >= MAX31335_SECONDS /\ a < MAX31335_SECONDS + TimeSize
             THEN date[a - MAX31335_SECONDS + 1]
        ELSE IF a >= MAX31335_ALM1_SEC /\ a < MAX31335_ALM1_SEC + AlarmSize
             THEN block[a - MAX31335_ALM1_SEC + 1]
        ELSE 0]

InitRest ==
    /\ ops_lock = "free"
    /\ rtc = RtcIdle
    /\ irq = IrqIdle
    /\ notified = 0
    /\ fired = A1F(regs[MAX31335_STATUS1])
    /\ lastSet = NoTime
    /\ clk = ClkIdle
    /\ probe = ProbeBound
    /\ vol = VolIdle

Init ==
    /\ \E status \in InitStatus, int_en \in InitIntEn :
          regs = InitRegs(set_time_encode(Epoch), set_alarm_encode(ZeroTm),
                          status, int_en)
    /\ InitRest

Next ==
    \/ \E c \in Calls : \E f \in Faults(c.op) : rtc_call(c.op, c.arg, f)
    \/ rtc_lock
    \/ rtc_unlock
    \/ max31335_read_time
    \/ max31335_set_time
    \/ max31335_read_offset
    \/ max31335_set_offset
    \/ max31335_read_alarm
    \/ max31335_read_alarm_time
    \/ max31335_read_alarm_ctrl
    \/ max31335_read_alarm_status
    \/ max31335_set_alarm
    \/ max31335_set_alarm_enable
    \/ max31335_alarm_irq_enable
    \/ \E f \in Faults("handle_irq") : irq_raise(f)
    \/ max31335_handle_irq_lock
    \/ max31335_handle_irq_read
    \/ max31335_handle_irq_clear
    \/ max31335_handle_irq_notify
    \/ max31335_handle_irq_exit
    \/ alarm_fires

Spec == Init /\ [][Next]_vars

----------------------------------------------------------------------------
(* Properties of the alarm path and the interrupt handler, under Spec      *)

InHandler == irq.pc \in {"read", "clear", "notify", "exit"}

InCallback == rtc.pc \notin {"idle", "lock"}

Logged(t, what) == \E i \in 1..Len(t.log) : t.log[i] = what

\* C2: when set_alarm returns success (and the chip latched no new alarm
\* during the call), the A1IE bit of INT_EN equals alrm->enabled and the
\* A1F bit of STATUS1 is 0.
C2_SetAlarmAppliesBoth ==
    (rtc.op = "set_alarm" /\ rtc.pc = "ret" /\ rtc.ret = "0" /\ ~rtc.hw)
        => /\ A1IE(regs[MAX31335_INT_EN]) = rtc.arg.enabled
           /\ A1F(regs[MAX31335_STATUS1]) = 0

\* C3: a handler run that read A1F set, on a bus without fault, has cleared
\* A1F with update_bits before it notifies, notifies exactly once, and the
\* flag is 0 when it returns (unless the chip latched a new alarm after the
\* clear).
C3_ClearThenNotifyOnce ==
    (irq.fault = "none" /\ A1F(irq.status) = 1)
        => /\ irq.pc = "notify"
                => /\ irq.log = <<"read STATUS1", "update_bits STATUS1">>
                   /\ ~irq.hw => A1F(regs[MAX31335_STATUS1]) = 0
           /\ irq.pc \in {"exit", "returned"}
                => /\ irq.log = <<"read STATUS1", "update_bits STATUS1",
                                  "rtc_update_irq">>
                   /\ ~irq.hw => A1F(regs[MAX31335_STATUS1]) = 0

C3_Witness ==
    /\ irq.pc = "returned"
    /\ irq.fault = "none"
    /\ A1F(irq.status) = 1
    /\ irq.log = <<"read STATUS1", "update_bits STATUS1", "rtc_update_irq">>
    /\ A1F(regs[MAX31335_STATUS1]) = 0
    /\ notified = 1

\* C4: the handler and a callback of the RTC core are never inside their
\* register sequences at the same time; whoever is inside owns ops_lock;
\* and the enable bit a successful set_alarm or alarm_irq_enable wrote is
\* still in INT_EN when it returns.
C4_Serialized ==
    /\ ~(InHandler /\ InCallback)
    /\ InHandler => ops_lock = "irq"
    /\ InCallback => ops_lock = "rtc"
    /\ (rtc.op \in {"set_alarm", "alarm_irq_enable"} /\ rtc.pc = "ret"
        /\ rtc.ret = "0")
          => A1IE(regs[MAX31335_INT_EN]) = rtc.arg.enabled

\* the handler waits for the lock while set_alarm is between its two writes
C4_Witness ==
    /\ irq.pc = "lock"
    /\ rtc.op = "set_alarm"
    /\ rtc.pc = "set_alarm_enable"
    /\ ops_lock = "rtc"
    /\ A1F(regs[MAX31335_STATUS1]) = 1

\* C5: a handler run whose status read or clear write failed does not
\* notify; on every path the handler returns IRQ_HANDLED with the lock
\* released, and holds the lock exactly while it is inside.
C5_HandlerErrorPaths ==
    /\ (irq.fault /= "none" /\ Logged(irq, irq.fault))
          => /\ ~Logged(irq, "rtc_update_irq")
             /\ irq.pc \notin {"clear", "notify"} \/ irq.fault = "update_bits STATUS1"
    /\ irq.pc = "notify" => ~Logged(irq, irq.fault)
    /\ irq.pc = "returned" => irq.ret = "IRQ_HANDLED" /\ ops_lock /= "irq"
    /\ irq.pc /= "returned" => irq.ret = "none"
    /\ ops_lock = "irq" <=> InHandler

C5_Witness ==
    /\ irq.pc = "returned"
    /\ irq.fault = "update_bits STATUS1"
    /\ irq.log = <<"read STATUS1", "update_bits STATUS1">>
    /\ irq.ret = "IRQ_HANDLED"
    /\ ops_lock = "free"
    /\ notified = 0
    /\ A1F(regs[MAX31335_STATUS1]) = 1

\* a handler run that read A1F clear has logged the STATUS1 read alone;
\* notifications never outnumber the alarms the chip latched, and match
\* them once the flag is clear again
C6_SpuriousInv ==
    /\ (irq.pc \in {"exit", "returned"} /\ irq.fault /= "read STATUS1"
        /\ A1F(irq.status) = 0)
          => /\ irq.log = <<"read STATUS1">>
             /\ irq.pc = "returned" => irq.ret = "IRQ_HANDLED"
    /\ notified <= fired
    /\ (A1F(regs[MAX31335_STATUS1]) = 0 /\ irq.pc /= "notify")
          => notified = fired

\* the steps of a handler run that read A1F clear change no register and
\* notify nobody
C6_SpuriousStep ==
    (/\ <<irq.pc, irq'.pc>> \in {<<"read", "exit">>, <<"exit", "returned">>}
     /\ irq.fault /= "read STATUS1"
     /\ A1F(irq'.status) = 0)
        => regs' = regs /\ notified' = notified

\* C6: a handler run that read A1F clear has made one register access, the
\* STATUS1 read, no write and no notification, and returns IRQ_HANDLED;
\* its steps change no register; and however often the handler runs there
\* is exactly one notification per alarm the chip latched.
C6_Idempotent == [] C6_SpuriousInv /\ [][C6_SpuriousStep]_vars

\* a second, spurious run after the one that handled the alarm
C6_Witness ==
    /\ irq.pc = "returned"
    /\ irq.fault = "none"
    /\ irq.log = <<"read STATUS1">>
    /\ A1F(irq.status) = 0
    /\ fired = 1
    /\ notified = 1

\* C7: a callback whose bus fault hits one of the transactions it is to
\* perform returns the error, never success.
C7_NoErrorSwallowed ==
    (rtc.pc = "ret" /\ rtc.fault /= "none") => rtc.ret = "EIO"

\* the six alarm registers and STATUS1
AlarmAndStatus ==
    {MAX31335_STATUS1}
    \cup (MAX31335_ALM1_SEC .. MAX31335_ALM1_SEC + AlarmSize - 1)

C12_Step ==
    (rtc.pc = "alarm_irq_enable" /\ rtc'.pc = "ret" /\ rtc'.ret = "0")
        => /\ A1IE(regs'[MAX31335_INT_EN]) = rtc.arg.enabled
           /\ \A n \in 1..7 :
                 Bit(regs'[MAX31335_INT_EN], n) = Bit(regs[MAX31335_INT_EN], n)
           /\ \A a \in AlarmAndStatus : regs'[a] = regs[a]

\* C12: a successful alarm_irq_enable(e), e in {0, 1}, leaves A1IE equal to
\* e and changes no other bit of INT_EN, none of the six alarm registers and
\* not the pending flag in STATUS1.
C12_OnlyA1IE == [][C12_Step]_vars

\* alarm_irq_enable(0) has returned 0 with the alarm flag still pending and
\* bits 1 and 2 of INT_EN still set
C12_Witness ==
    /\ rtc.op = "alarm_irq_enable"
    /\ rtc.pc = "ret"
    /\ rtc.ret = "0"
    /\ rtc.arg.enabled = 0
    /\ regs[MAX31335_INT_EN] = 6
    /\ A1F(regs[MAX31335_STATUS1]) = 1

\* a register byte read as a signed 8-bit two's-complement value
Signed8(b) == IF b >= 128 THEN b - 256 ELSE b

\* C13: the aging offset is a signed 8-bit pass-through: a successful
\* set_offset(v), v in -128..127, stores the two's-complement byte of v in
\* AGING_OFFSET, and a successful read_offset returns that register byte
\* read as a signed value, so that it returns v again.
C13_OffsetSigned ==
    /\ (rtc.op = "set_offset" /\ rtc.pc = "ret" /\ rtc.ret = "0")
          => Signed8(regs[MAX31335_AGING_OFFSET]) = rtc.arg.offset
    /\ (rtc.op = "read_offset" /\ rtc.pc = "ret" /\ rtc.ret = "0")
          => rtc.out.offset = Signed8(regs[MAX31335_AGING_OFFSET])

----------------------------------------------------------------------------
(* The time translation over its whole range: specification SpecTime       *)

\* tm_year of the supported range, 2000..2199
Years == 100..299

\* civil times: every value of every field, the other fields held at
\* 12:30:30 on Wednesday the 15th of January; every year with month 1,
\* every month on both sides of the century change
TimeInputs ==
    {Tm(y, 0, 15, 3, 12, 30, 30) : y \in Years}
    \cup {Tm(y, mon, 15, 3, 12, 30, 30) : y \in {199, 200}, mon \in 0..11}
    \cup {Tm(124, 0, mday, 3, 12, 30, 30) : mday \in 1..31}
    \cup {Tm(124, 0, 15, wday, 12, 30, 30) : wday \in 0..6}
    \cup {Tm(224, 0, 15, 3, hour, 30, 30) : hour \in 0..23}
    \cup {Tm(124, 0, 15, 3, 12, min, 30) : min \in 0..59}
    \cup {Tm(224, 0, 15, 3, 12, 30, sec) : sec \in 0..59}
    \cup {Tm(100, 0, 1, 6, 0, 0, 0), Tm(299, 11, 31, 2, 23, 59, 59)}

\* a block of the seven time registers: month (1..12), century flag and
\* 2-digit year as given, 12:30:30 on day 4 of the week, the 15th
TimeBlock(month, century, yy) ==
    <<bin2bcd(30), bin2bcd(30), bin2bcd(12), 4, bin2bcd(15),
      WithBit(bin2bcd(month), 7, century), bin2bcd(yy)>>

\* the register blocks the chip may hold: every 2-digit year and every
\* month with the century flag set and clear
TimeBlocks ==
    {TimeBlock(1, c, yy) : c \in {0, 1}, yy \in 0..99}
    \cup {TimeBlock(month, c, 50) : month \in 1..12, c \in {0, 1}}

InitTime ==
    /\ \E date \in TimeBlocks :
          regs = InitRegs(date, set_alarm_encode(ZeroTm), 0, 0)
    /\ InitRest

\* every time is set on a working bus; the bus fault is tried with SetTimes
NextTime ==
    \/ \E tm \in TimeInputs : rtc_call("set_time", Arg(tm, 0, 0), "none")
    \/ \E tm \in SetTimes : \E f \in Faults("set_time") :
          rtc_call("set_time", Arg(tm, 0, 0), f)
    \/ \E f \in Faults("read_time") : rtc_call("read_time", NoArg, f)
    \/ rtc_lock
    \/ max31335_set_time
    \/ max31335_read_time
    \/ rtc_unlock

SpecTime == InitTime /\ [][NextTime]_vars

\* the month and year registers
MonthReg == regs[MAX31335_SECONDS + 5]
YearReg == regs[MAX31335_SECONDS + 6]

\* the decimal value of a two-digit BCD byte
Digits(b) == (b \div 16) * 10 + (b % 16)

\* C1: read_time returns, in all seven fields, the time of the last
\* successful set_time when nothing has written the time registers since.
C1_TimeRoundTrip ==
    (rtc.op = "read_time" /\ rtc.pc = "ret" /\ rtc.ret = "0" /\ lastSet.valid)
        => rtc.out.time = lastSet.tm

\* 2199-12-31 23:59:59 has been written and read back
C1_Witness ==
    /\ rtc.op = "read_time"
    /\ rtc.pc = "ret"
    /\ rtc.ret = "0"
    /\ lastSet.valid
    /\ lastSet.tm = Tm(299, 11, 31, 2, 23, 59, 59)
    /\ rtc.out.time = Tm(299, 11, 31, 2, 23, 59, 59)

\* C10: after a successful set_time bit 7 of the month register is set
\* exactly when the year is 2100 or later and the year register holds the
\* year mod 100 in BCD; a successful read_time returns year 2100 + yy when
\* bit 7 of the month register is set and 2000 + yy when it is clear, and
\* the month it returns is the one in the low bits whatever bit 7 is.
C10_CenturyFlag ==
    /\ (rtc.op = "set_time" /\ rtc.pc = "ret" /\ rtc.ret = "0")
          => /\ Bit(MonthReg, 7) = 1 <=> rtc.arg.time.tm_year + 1900 >= 2100
             /\ YearReg \div 16 = ((rtc.arg.time.tm_year + 1900) % 100) \div 10
             /\ YearReg % 16 = (rtc.arg.time.tm_year + 1900) % 10
    /\ (rtc.op = "read_time" /\ rtc.pc = "ret" /\ rtc.ret = "0")
          => /\ rtc.out.time.tm_year + 1900 =
                   (IF Bit(MonthReg, 7) = 1 THEN 2100 ELSE 2000) + Digits(YearReg)
             /\ rtc.out.time.tm_mon + 1 = Digits(MonthReg % 128)

\* a block with the century bit and 2-digit year 50 reads as 2150, December
C10_Witness ==
    /\ rtc.op = "read_time"
    /\ rtc.pc = "ret"
    /\ rtc.ret = "0"
    /\ ~lastSet.valid
    /\ Bit(MonthReg, 7) = 1
    /\ YearReg = 80
    /\ rtc.out.time.tm_year = 250
    /\ rtc.out.time.tm_mon = 11

----------------------------------------------------------------------------
(* The alarm translation over the alarm registers: specification SpecAlarm *)

\* the well-formed hour bytes: 24-hour mode with BCD 0..23, and 12-hour
\* mode (bit 6) with BCD 1..12 and the AM/PM bit (bit 5)
HourBytes ==
    {bin2bcd(h) : h \in 0..23}
    \cup {64 + 32 * pm + bin2bcd(h) : h \in 1..12, pm \in {0, 1}}

\* a block of the six alarm registers: hour byte and 2-digit year as given,
\* 30 minutes 30 seconds, the 15th of January
AlarmBlock(hour_reg, yy) ==
    <<bin2bcd(30), bin2bcd(30), hour_reg, bin2bcd(15), bin2bcd(1), bin2bcd(yy)>>

AlarmBlocks ==
    {AlarmBlock(h, 7) : h \in HourBytes}
    \cup {AlarmBlock(bin2bcd(12), yy) : yy \in 0..99}

\* the live time is in 2000, 2005, 2050 or 2099, or in 2100, 2105, 2150
\* or 2199
LiveBlocks == {TimeBlock(1, c, yy) : c \in {0, 1}, yy \in {0, 5, 50, 99}}

InitAlarm ==
    /\ \E date \in LiveBlocks, block \in AlarmBlocks :
       \E status \in InitStatus, int_en \in InitStatus :
          regs = InitRegs(date, block, status, int_en)
    /\ InitRest

NextAlarm ==
    \/ \E f \in Faults("read_alarm") : rtc_call("read_alarm", NoArg, f)
    \/ \E tm \in SetAlarms, e \in {0, 1} : \E f \in Faults("set_alarm") :
          rtc_call("set_alarm", Arg(tm, e, 0), f)
    \/ rtc_lock
    \/ max31335_read_alarm
    \/ max31335_read_alarm_time
    \/ max31335_read_alarm_ctrl
    \/ max31335_read_alarm_status
    \/ max31335_set_alarm
    \/ max31335_set_alarm_enable
    \/ rtc_unlock

SpecAlarm == InitAlarm /\ [][NextAlarm]_vars

\* the alarm hour and year registers
AlarmHourReg == regs[MAX31335_ALM1_SEC + 2]
AlarmYearReg == regs[MAX31335_ALM1_SEC + 5]

\* C8: a successful read_alarm returns year 2100 + yy when the live time is
\* in 2100 or later (century flag of the month register set) and 2000 + yy
\* otherwise, yy being the 2-digit year of the alarm year register.
C8_AlarmCentury ==
    (rtc.op = "read_alarm" /\ rtc.pc = "ret" /\ rtc.ret = "0")
        => rtc.out.time.tm_year + 1900 =
              (IF Bit(MonthReg, 7) = 1 THEN 2100 ELSE 2000) + Digits(AlarmYearReg)

\* live year 2105, stored alarm year 07: read_alarm gives 2107
C8_Witness ==
    /\ rtc.op = "read_alarm"
    /\ rtc.pc = "ret"
    /\ rtc.ret = "0"
    /\ Bit(MonthReg, 7) = 1
    /\ YearReg = 5
    /\ AlarmYearReg = 7
    /\ rtc.out.time.tm_year + 1900 = 2107

\* C9: the hour a successful read_alarm returns is the hour read_time's
\* decode, max31335_get_hour, gives for the alarm hour register, 12-hour
\* bytes included, and lies in 0..23.
C9_AlarmHourLikeTime ==
    (rtc.op = "read_alarm" /\ rtc.pc = "ret" /\ rtc.ret = "0")
        => /\ rtc.out.time.tm_hour = max31335_get_hour(AlarmHourReg)
           /\ rtc.out.time.tm_hour \in 0..23

----------------------------------------------------------------------------
(* The hour decode over every well-formed hour byte: specification SpecHour *)

\* the seven time registers of 15 January 2024 with the hour byte as given
HourBlock(hour_reg) == [TimeBlock(1, 0, 24) EXCEPT ![3] = hour_reg]

InitHour ==
    /\ \E h \in HourBytes : \E status \in InitStatus, int_en \in InitStatus :
          regs = InitRegs(HourBlock(h), AlarmBlock(bin2bcd(12), 7), status, int_en)
    /\ InitRest

NextHour ==
    \/ \E f \in Faults("read_time") : rtc_call("read_time", NoArg, f)
    \/ rtc_lock
    \/ max31335_read_time
    \/ rtc_unlock

SpecHour == InitHour /\ [][NextHour]_vars

\* the hour register of the time block
HourReg == regs[MAX31335_SECONDS + 2]

\* C11: the hour of a successful read_time is, in 24-hour mode (bit 6
\* clear), the BCD value of the low six bits; in 12-hour mode (bit 6 set),
\* with n the BCD value of the low five bits and bit 5 the PM flag: 12 AM
\* is 0, 1..11 AM is n, 12 PM is 12, 1..11 PM is n + 12.  It is in 0..23.
C11_HourDecode ==
    (rtc.op = "read_time" /\ rtc.pc = "ret" /\ rtc.ret = "0")
        => /\ rtc.out.time.tm_hour \in 0..23
           /\ Bit(HourReg, 6) = 0
                 => rtc.out.time.tm_hour = Digits(HourReg % 64)
           /\ (Bit(HourReg, 6) = 1 /\ Bit(HourReg, 5) = 0)
                 => rtc.out.time.tm_hour =
                       (IF Digits(HourReg % 32) = 12 THEN 0
                        ELSE Digits(HourReg % 32))
           /\ (Bit(HourReg, 6) = 1 /\ Bit(HourReg, 5) = 1)
                 => rtc.out.time.tm_hour =
                       (IF Digits(HourReg % 32) = 12 THEN 12
                        ELSE Digits(HourReg % 32) + 12)

\* the 12-hour byte 0x52 (12 AM) has been read as hour 0
C11_Witness ==
    /\ rtc.op = "read_time"
    /\ rtc.pc = "ret"
    /\ rtc.ret = "0"
    /\ HourReg = 82
    /\ rtc.out.time.tm_hour = 0

----------------------------------------------------------------------------
(* The clock output over a sweep of rates: specification SpecClk           *)

\* round_rate is asked for every rate up to MaxRate and for these larger
\* ones; set_rate is given the rates of SetRates
MaxRate == 600

ClkRates == (0 .. MaxRate) \cup {2000, 16895, 16896, 16897, 32768, 40000}

SetRates == {0, 32, 33, 34, 544, 545, 2000, 16896, 16897, 40000}

\* RTC_CONFIG2 when the first call comes: any rate index, output enabled
\* or not, the other bits clear or set
InitConfig2 == {0, 7, 249}

InitClk ==
    /\ \E c \in InitConfig2 :
          regs = [InitRegs(TimeBlock(1, 0, 24), AlarmBlock(bin2bcd(12), 7), 0, 0)
                     EXCEPT ![MAX31335_RTC_CONFIG2] = c]
    /\ InitRest

NextClk ==
    \/ \E r \in ClkRates : clk_call("round_rate", r, FALSE)
    \/ \E r \in SetRates : \E f \in BOOLEAN : clk_call("set_rate", r, f)
    \/ \E op \in {"recalc_rate", "enable", "disable", "is_enabled"} :
       \E f \in BOOLEAN : clk_call(op, 0, f)
    \/ max31335_clkout_recalc_rate
    \/ max31335_clkout_round_rate
    \/ max31335_clkout_set_rate
    \/ max31335_clkout_enable
    \/ max31335_clkout_disable
    \/ max31335_clkout_is_enabled
    \/ clk_return

SpecClk == InitClk /\ [][NextClk]_vars

Abs(x) == IF x < 0 THEN 0 - x ELSE x

\* the index of the supported rate nearest to r, the lower index on a tie
NearestIndex(r) ==
    CHOOSE i \in 1 .. Len(max31335_clkout_freq) :
        \A k \in 1 .. Len(max31335_clkout_freq) :
            \/ Abs(r - max31335_clkout_freq[i]) < Abs(r - max31335_clkout_freq[k])
            \/ /\ Abs(r - max31335_clkout_freq[i]) = Abs(r - max31335_clkout_freq[k])
               /\ i <= k

\* C14: round_rate(r) returns the rate of {1, 64, 1024, 32768} nearest to
\* r, the lower index on a tie; a successful set_rate(r) leaves the index
\* of that rate in the low two bits of RTC_CONFIG2, and a recalc_rate that
\* follows the last successful set_rate(r) returns round_rate(r).
C14_NearestRate ==
    /\ (clk.op = "round_rate" /\ clk.pc = "ret")
          => clk.out = max31335_clkout_freq[NearestIndex(clk.rate)]
    /\ (clk.op = "set_rate" /\ clk.pc = "ret" /\ clk.ret = "0")
          => regs[MAX31335_RTC_CONFIG2] % 4 = NearestIndex(clk.rate) - 1
    /\ (clk.op = "recalc_rate" /\ clk.pc = "ret" /\ ~clk.fault /\ clk.last >= 0)
          => clk.out = round_rate(clk.last)

----------------------------------------------------------------------------
(* The probe over the firmware configurations: specification SpecProbe     *)

\* trickle-resistor-ohms: the three supported values and two others
TrickleOhms == {3000, 5000, 6000, 11000, 12000}

ProbeFailures ==
    {"none", "read STATUS1", "rtc_allocate", "rtc_register", "clk_register",
     "write TRICKLE_REG"}

ProbeConfigs ==
    {ProbeConfig(client_irq, irq_req, has_ohms, ohms, diode, clock_cells, fail) :
        client_irq \in {0, 1}, irq_req \in {"0", "EBUSY"},
        has_ohms \in {TRUE}, ohms \in TrickleOhms, diode \in BOOLEAN,
        clock_cells \in BOOLEAN, fail \in ProbeFailures}
    \cup
    {ProbeConfig(client_irq, irq_req, FALSE, 0, diode, clock_cells, fail) :
        client_irq \in {0, 1}, irq_req \in {"0", "EBUSY"}, diode \in BOOLEAN,
        clock_cells \in BOOLEAN, fail \in ProbeFailures}

InitProbe ==
    /\ regs = InitRegs(TimeBlock(1, 0, 24), AlarmBlock(bin2bcd(12), 7), 0, 0)
    /\ ops_lock = "free"
    /\ rtc = RtcIdle
    /\ irq = IrqIdle
    /\ notified = 0
    /\ fired = 0
    /\ lastSet = NoTime
    /\ clk = ClkIdle
    /\ vol = VolIdle
    /\ \E cfg \in ProbeConfigs : probe = ProbeStart(cfg)

NextProbe ==
    \/ max31335_probe_read_status
    \/ max31335_probe_allocate
    \/ max31335_probe_register
    \/ max31335_clkout_register
    \/ max31335_probe_request_irq
    \/ max31335_probe_features
    \/ max31335_trickle_charger_setup

SpecProbe == InitProbe /\ [][NextProbe]_vars

\* the register writes the setup must make for a resistor that is entry k
\* (from 0) of {3000, 6000, 11000}: one, the enable bit (bit 0) set and
\* the field in bits 3..1 equal to k + 4 with the diode, k + 1 without
TrickleWrites(k, diode) ==
    <<<<MAX31335_TRICKLE_REG, 1 + 2 * (IF diode THEN k + 4 ELSE k + 1)>>>>

\* C15: for a configured resistor that is entry k of {3000, 6000, 11000}
\* the trickle setup makes exactly one write, to the trickle register, with
\* the enable bit set and the selection k + 4 with the diode, k + 1 without;
\* for any other value, or none configured, it writes no register and
\* returns success.
C15_TrickleSetup ==
    probe.trickle /= "none"
        => IF probe.cfg.has_ohms /\ probe.cfg.ohms \in {3000, 6000, 11000}
           THEN /\ probe.cfg.ohms = 3000
                      => probe.writes = TrickleWrites(0, probe.cfg.diode)
                /\ probe.cfg.ohms = 6000
                      => probe.writes = TrickleWrites(1, probe.cfg.diode)
                /\ probe.cfg.ohms = 11000
                      => probe.writes = TrickleWrites(2, probe.cfg.diode)
                /\ probe.trickle = "0"
                      => regs[MAX31335_TRICKLE_REG] = probe.writes[1][2]
           ELSE /\ probe.writes = <<>>
                /\ probe.trickle = "0"
                /\ regs[MAX31335_TRICKLE_REG] = 0

\* resistor 6000 with the diode: the register holds selection 5 and the
\* enable bit
C15_Witness ==
    /\ probe.trickle = "0"
    /\ probe.cfg.has_ohms
    /\ probe.cfg.ohms = 6000
    /\ probe.cfg.diode
    /\ probe.writes = <<<<MAX31335_TRICKLE_REG, 11>>>>
    /\ regs[MAX31335_TRICKLE_REG] = 11

\* C16: a probe that gets no interrupt handler (no line, or the request
\* fails) does not fail for it and ends with the alarm capability cleared;
\* and whenever the device is registered with the RTC framework, the alarm
\* capability is set only if an interrupt handler has been registered.
C16_AlarmNeedsHandler ==
    /\ (probe.pc = "done" /\ probe.cfg.fail = "none")
          => probe.ret = "0" /\ (~probe.handler => ~probe.alarm)
    /\ (probe.registered /\ probe.alarm) => probe.handler

----------------------------------------------------------------------------
(* The volatile-register predicate: specification SpecVolatile             *)

NextVolatile ==
    \/ \E reg \in 0 .. max_register : regmap_volatile(reg)
    \/ max31335_volatile_reg_call

SpecVolatile == Init /\ [][NextVolatile]_vars

\* the registers the hardware changes by itself: the seven time registers,
\* STATUS1 and the two temperature data registers
HardwareChanged ==
    (MAX31335_SECONDS .. MAX31335_SECONDS + 6)
    \cup {MAX31335_STATUS1, MAX31335_TEMP_DATA_MSB, MAX31335_TEMP_DATA_LSB}

\* C17: max31335_volatile_reg returns true exactly for the seven time
\* registers from 0x0A, STATUS1 (0x00) and the temperature data registers
\* 0x35 and 0x36, and false for every other address in 0x00..0x5F.
C17_VolatileExactly ==
    vol.pc = "answered" => (vol.volatile <=> vol.reg \in HardwareChanged)

====
